---- MODULE Spec2Model ----
(***************************************************************************)
(* Model of the oc installer of openshift-vsts: InstallHandler             *)
(* (src/src/oc-install.ts, lines 1-374) and the task entry point run()     *)
(* (src/unnamed/part_001).                                                 *)
(*                                                                         *)
(* A JavaScript string is a sequence of tokens.  A token is one character  *)
(* wherever the code looks inside the string (version strings, archive     *)
(* names, path separators) and an opaque run of characters elsewhere (a    *)
(* host name, a fixed message).  null and undefined are one-token          *)
(* sequences that no string operation produces.                            *)
(***************************************************************************)
EXTENDS Integers, Sequences, FiniteSets, TLC

VARIABLES
    version,        \* task input 'version' / first argument of the call
    osType,         \* task.osType() / osType argument
    useLocalOc,     \* task input 'useLocalOc'
    whichOc,        \* what tl.which('oc', true) finds: a path, or NULL (it throws)
    localOcVersion, \* what getOcVersion reports for the local oc, or UNDEFINED
    latestArg,      \* third argument of a direct ocBundleURL call
    pc,             \* position of the run
    downloadVersion,\* installOc: the local of that name
    url,            \* installOc: the local of that name / result of a direct ocBundleURL call
    ocPromise,      \* how installOc settled: [kind, value, isError]
    outcome,        \* how run() settled: [kind, value, isError]
    dirs,           \* file system: the directories that exist
    files,          \* file system: the files that exist, [path, src, entries, mode]
    PATH,           \* the PATH task variable
    taskResults,    \* the task.setResult calls made, in order
    trace,          \* the calls made so far, in order
    calls,          \* the downloadAndExtract calls completed so far, in order
    host            \* the path flavour of the agent: posix or win32

vars == <<version, osType, useLocalOc, whichOc, localOcVersion, latestArg, pc,
          downloadVersion, url, ocPromise, outcome, dirs, files, PATH, taskResults, trace, calls,
          host>>

------------------------------------------------------------------------------
(* Bounds of the model *)

\* longest version string enumerated for the resolver
MaxVerLen == 4
\* number of successive downloadAndExtract calls on one file system
MaxCalls == 2

------------------------------------------------------------------------------
(* Strings *)

NULL == <<"<null>">>
UNDEFINED == <<"<undefined>">>

\* JavaScript truthiness of a string-or-null value: !s is true for null, undefined and ''
Falsy(s) == s = NULL \/ s = UNDEFINED \/ s = <<>>

Digits == {"0", "1", "2", "3", "4", "5", "6", "7", "8", "9"}

DigitVal(c) ==
    CASE c = "0" -> 0 [] c = "1" -> 1 [] c = "2" -> 2 [] c = "3" -> 3 [] c = "4" -> 4
      [] c = "5" -> 5 [] c = "6" -> 6 [] c = "7" -> 7 [] c = "8" -> 8 [] c = "9" -> 9

\* unary plus on a string of digits
RECURSIVE ToNumber(_)
ToNumber(s) ==
    IF s = <<>> THEN 0
    ELSE 10 * ToNumber(SubSeq(s, 1, Len(s) - 1)) + DigitVal(s[Len(s)])

\* last index of the digit run that starts at i (i - 1 when s[i] is no digit)
RunEnd(s, i) ==
    CHOOSE j \in (i - 1)..Len(s) :
        /\ \A k \in i..j : s[k] \in Digits
        /\ (j = Len(s) \/ s[j + 1] \notin Digits)

\* String.prototype.lastIndexOf for a one-character needle, 1-based; 0 when absent
LastIndexOf(s, c) ==
    IF \E i \in 1..Len(s) : s[i] = c
    THEN CHOOSE i \in 1..Len(s) : s[i] = c /\ \A k \in (i + 1)..Len(s) : s[k] # c
    ELSE 0

\* first index at which sub occurs in s, 0 when it does not
IndexOf(s, sub) ==
    LET hits == {i \in 1..(Len(s) - Len(sub) + 1) : SubSeq(s, i, i + Len(sub) - 1) = sub}
    IN IF hits = {} THEN 0 ELSE CHOOSE i \in hits : \A k \in hits : i <= k

\* String.prototype.replace(sub, '') with a string pattern: the first occurrence only
RemoveFirst(s, sub) ==
    LET i == IndexOf(s, sub)
    IN IF i = 0 \/ sub = <<>> THEN s
       ELSE SubSeq(s, 1, i - 1) \o SubSeq(s, i + Len(sub), Len(s))

\* String.prototype.toLowerCase on the letters the model uses
Lower(s) == [i \in 1..Len(s) |-> IF s[i] = "V" THEN "v" ELSE s[i]]

------------------------------------------------------------------------------
(* constants.ts and oc-utils.json *)

LINUX == <<"linux">>
MACOSX == <<"macosx">>
WIN == <<"windows">>
OC_TAR_GZ == <<"oc", ".", "tar", ".", "gz">>
OC_ZIP == <<"oc", ".", "zip">>
LATEST == <<"latest">>

V3Base == <<"https:", "/", "/", "mirror.openshift.com", "/", "pub", "/", "openshift-v3", "/", "clients">>
V4Base == <<"https:", "/", "/", "mirror.openshift.com", "/", "pub", "/", "openshift-v4", "/", "clients", "/", "oc">>

\* the keys 'oc' + MAJOR.MINOR of oc-utils.json: the latest patch of each known line
OcUtilsKeys == { <<"3", ".", "1", "1">>, <<"4", ".", "1">>, <<"4", ".", "3">> }

OcUtilsPatch(baseVersion) ==
    CASE baseVersion = <<"3", ".", "1", "1">> -> <<"3", ".", "1", "1", ".", "9">>
      [] baseVersion = <<"4", ".", "1">>      -> <<"4", ".", "1", ".", "3">>
      [] baseVersion = <<"4", ".", "3">>      -> <<"4", ".", "3", ".", "0">>

\* ocUtils[`oc${baseVersion}`]: undefined for a key the file does not hold
getOcUtils(baseVersion) ==
    IF baseVersion \in OcUtilsKeys THEN OcUtilsPatch(baseVersion) ELSE UNDEFINED

------------------------------------------------------------------------------
(* Resolver *)

OsLinux == "Linux"
OsDarwin == "Darwin"
OsWindows == "Windows_NT"

getOcBundleByOS(os) ==
    CASE os = OsLinux   -> LINUX \o <<"/">> \o OC_TAR_GZ
      [] os = OsDarwin  -> MACOSX \o <<"/">> \o OC_TAR_GZ
      [] os = OsWindows -> WIN \o <<"/">> \o OC_ZIP
      [] OTHER          -> NULL

\* latestStable built on the v3 mirror
latestStable_V3(os) ==
    LET bundle == getOcBundleByOS(os)
    IN IF Falsy(bundle) THEN NULL
       ELSE V3Base \o <<"/">> \o LATEST \o <<"/">> \o bundle

latestStable(os) ==
    LET bundle == getOcBundleByOS(os)
    IN IF Falsy(bundle) THEN NULL
       ELSE V4Base \o <<"/">> \o LATEST \o <<"/">> \o bundle

\* StripV without the strip: the leading 'v' stays in the version
StripV_Keep(v) == v

\* version.startsWith('v') ? version.substr(1) : version
StripV(v) == IF Len(v) > 0 /\ v[1] = "v" THEN SubSeq(v, 2, Len(v)) ELSE v

\* new RegExp('\\d+(?=\\.)').exec(s): [start, end] of the match, <<>> for no match
MajorMatch(s) ==
    LET starts == {i \in 1..Len(s) :
                     /\ s[i] \in Digits
                     /\ RunEnd(s, i) < Len(s)
                     /\ s[RunEnd(s, i) + 1] = "."}
    IN IF starts = {} THEN <<>>
       ELSE LET i == CHOOSE a \in starts : \A b \in starts : a <= b
            IN <<i, RunEnd(s, i)>>

\* new RegExp('\\d+\\.\\d+(?=\\.)').exec(s): [start, end] of the match, <<>> for no match
MinorEnd(s, i) == RunEnd(s, RunEnd(s, i) + 2)

MinorMatch(s) ==
    LET starts == {i \in 1..Len(s) :
                     /\ s[i] \in Digits
                     /\ RunEnd(s, i) < Len(s)
                     /\ s[RunEnd(s, i) + 1] = "."
                     /\ RunEnd(s, i) + 2 <= Len(s)
                     /\ s[RunEnd(s, i) + 2] \in Digits
                     /\ MinorEnd(s, i) < Len(s)
                     /\ s[MinorEnd(s, i) + 1] = "."}
    IN IF starts = {} THEN <<>>
       ELSE LET i == CHOOSE a \in starts : \A b \in starts : a <= b
            IN <<i, MinorEnd(s, i)>>

MirrorBase(vMajor) ==
    CASE vMajor = 3 -> V3Base
      [] vMajor = 4 -> V4Base
      [] OTHER      -> NULL

ocBundleURL(ver, os, latest) ==
    IF Falsy(ver) THEN NULL
    ELSE
      LET v1 == StripV(ver)
          vMajorRegEx == MajorMatch(v1)
      IN IF vMajorRegEx = <<>> THEN NULL
         ELSE
           LET vMajor == ToNumber(SubSeq(v1, vMajorRegEx[1], vMajorRegEx[2]))
               versionRegEx == MinorMatch(v1)
               baseVersion == SubSeq(v1, versionRegEx[1], versionRegEx[2])
               v2 == IF latest THEN getOcUtils(baseVersion) ELSE v1
               bundle == getOcBundleByOS(os)
           IN IF latest /\ versionRegEx = <<>> THEN NULL
              ELSE IF latest /\ Falsy(getOcUtils(baseVersion)) THEN NULL
              ELSE IF MirrorBase(vMajor) = NULL THEN NULL
              ELSE IF Falsy(bundle) THEN NULL
              ELSE MirrorBase(vMajor) \o <<"/">> \o v2 \o <<"/">> \o bundle

------------------------------------------------------------------------------
(* Paths and the file system *)

HostPosix == "posix"
HostWin32 == "win32"

\* the path module of the agent: path.sep
Sep(h) == IF h = HostWin32 THEN "\\" ELSE "/"

\* the agent whose os.type() is os
HostOf(os) == IF os = OsWindows THEN HostWin32 ELSE HostPosix

RECURSIVE Collapse(_, _)
Collapse(s, sep) ==
    IF Len(s) < 2 THEN s
    ELSE IF s[1] = sep /\ s[2] = sep THEN Collapse(Tail(s), sep)
    ELSE <<s[1]>> \o Collapse(Tail(s), sep)

\* path.normalize: win32 turns '/' into '\', runs of separators become one
Normalize(h, p) ==
    LET q == [i \in 1..Len(p) |->
                IF h = HostWin32 /\ p[i] = "/" THEN Sep(h) ELSE p[i]]
    IN Collapse(q, Sep(h))

\* path.join(a, b)
Join(h, a, b) ==
    IF b = <<>> THEN Normalize(h, a)
    ELSE Normalize(h, a \o <<Sep(h)>> \o b)

\* path.extname of a file name
ExtName(name) ==
    LET i == LastIndexOf(name, ".")
    IN IF i <= 1 THEN <<>> ELSE SubSeq(name, i, Len(name))

\* url.split('/') and its last element
LastSegment(u) == SubSeq(u, LastIndexOf(u, "/") + 1, Len(u))

FilePaths(fs) == {f.path : f \in fs}

\* tl.exist(p)
Exist(ds, fs, p) == p \in ds \/ p \in FilePaths(fs)

FileAt(fs, p) == CHOOSE f \in fs : f.path = p

\* process.env['SYSTEM_DEFAULTWORKINGDIRECTORY']
WorkDir(h) == IF h = HostWin32 THEN <<"D:", "\\", "w">> ELSE <<"/", "w">>

\* process.env['SYSTEM_DEFAULTWORKINGDIRECTORY'] + '/.download'
DownloadDirOf(h) == WorkDir(h) \o <<"/", ".download">>

------------------------------------------------------------------------------
(* What a server hands out for a URL: the format of the body and its entries *)

FmtZip == "zip"
FmtTarGz == "targz"
FmtJunk == "junk"

OcName == <<"oc">>
OcExeName == <<"oc", ".", "exe">>

Contents ==
    { [fmt |-> FmtZip,   entries |-> {[name |-> OcExeName, len |-> 1]}],
      [fmt |-> FmtZip,   entries |-> {[name |-> OcName, len |-> 1]}],
      [fmt |-> FmtTarGz, entries |-> {[name |-> OcName, len |-> 1]}],
      [fmt |-> FmtTarGz, entries |-> {[name |-> OcName, len |-> 0]}],
      [fmt |-> FmtJunk,  entries |-> {}] }

Mode644 == "0644"
Mode755 == "0755"

------------------------------------------------------------------------------
(* Fetcher / extractor *)

MsgNotExist == <<" does not exist.">>
MsgUnknownFormat == <<"unknown archive format ">>
MsgBadZip == <<"Invalid or unsupported zip format.">>

\* the archive type downloadAndExtract settles on for an archive name
ArchiveTypeOf(archive) ==
    LET archiveType == ExtName(archive)
        expandDir == RemoveFirst(archive, archiveType)
    IN IF ExtName(expandDir) = <<".", "tar">> THEN <<".", "tar", ".", "gz">>
       ELSE archiveType

\* new Zip(archivePath).extractAllTo(downloadDir): overwrite defaults to false
UnzipAll(h, dir, fs, arch) ==
    fs \cup { [path |-> Join(h, dir, e.name), src |-> arch.src,
               fmt |-> FmtJunk, entries |-> {}, mode |-> Mode644] :
              e \in {x \in arch.entries : Join(h, dir, x.name) \notin FilePaths(fs)} }

\* decompress(archivePath, downloadDir, {filter: file => file.data.length > 0, plugins: [decompressTargz()]})
Decompress(h, dir, fs, arch) ==
    LET kept == IF arch.fmt = FmtTarGz THEN {e \in arch.entries : e.len > 0} ELSE {}
        written == {Join(h, dir, e.name) : e \in kept}
    IN {f \in fs : f.path \notin written}
       \cup { [path |-> Join(h, dir, e.name), src |-> arch.src,
               fmt |-> FmtJunk, entries |-> {},
               mode |-> IF Join(h, dir, e.name) \in FilePaths(fs)
                        THEN FileAt(fs, Join(h, dir, e.name)).mode ELSE Mode644] :
              e \in kept }

\* fs.chmodSync(p, '0755')
Chmod755(fs, p) ==
    {f \in fs : f.path # p} \cup {[FileAt(fs, p) EXCEPT !.mode = Mode755]}

\* curl -s -L -o archivePath url
Curl(fs, archivePath, u, served) ==
    {f \in fs : f.path # archivePath} \cup {[path |-> archivePath, src |-> u, fmt |-> served.fmt,
              entries |-> served.entries, mode |-> Mode644]}

OcBinaryName(os) == IF os = OsWindows THEN OcExeName ELSE OcName

\* the result of one call: what it returned or threw, the file system it leaves,
\* and the steps it took
DlReturn(ds, fs, value, archivePath, steps) ==
    [kind |-> "returned", value |-> value, isError |-> FALSE, dirs |-> ds, files |-> fs,
     archivePath |-> archivePath, steps |-> steps]

DlThrow(ds, fs, value, isError, archivePath, steps) ==
    [kind |-> "threw", value |-> value, isError |-> isError, dirs |-> ds, files |-> fs,
     archivePath |-> archivePath, steps |-> steps]

\* LocateBinary without the chmod of line 285
LocateBinary_NoChmod(h, os, downloadDir, ds, fs, archivePath, steps) ==
    LET ocBinary == Join(h, downloadDir, OcBinaryName(os))
    IN IF ~Exist(ds, fs, ocBinary)
       THEN DlReturn(ds, fs, NULL, archivePath, steps)
       ELSE DlReturn(ds, fs, ocBinary, archivePath, steps)

\* lines 271-288: locate the executable, chmod it, return its path
LocateBinary(h, os, downloadDir, ds, fs, archivePath, steps) ==
    LET ocBinary == Join(h, downloadDir, OcBinaryName(os))
    IN IF ~Exist(ds, fs, ocBinary)
       THEN DlReturn(ds, fs, NULL, archivePath, steps)
       ELSE DlReturn(ds, IF ocBinary \in FilePaths(fs) THEN Chmod755(fs, ocBinary) ELSE fs,
                     ocBinary, archivePath, steps \o <<<<"chmod", ocBinary, <<>>>>>>)

\* lines 242-269: choose the extractor from the archive name and extract
Extract(h, os, downloadDir, ds, fs, archive, archivePath, steps) ==
    LET archiveType == ArchiveTypeOf(archive)
        isFile == archivePath \in FilePaths(fs)
        arch == IF isFile THEN FileAt(fs, archivePath)
                ELSE [path |-> archivePath, src |-> <<>>, fmt |-> FmtJunk,
                      entries |-> {}, mode |-> Mode644]
    IN IF archiveType = <<".", "zip">>
       THEN IF arch.fmt # FmtZip
            THEN DlThrow(ds, fs, MsgBadZip, TRUE, archivePath, steps \o <<<<"unzip", archivePath, downloadDir>>>>)
            ELSE LocateBinary(h, os, downloadDir, ds, UnzipAll(h, downloadDir, fs, arch),
                              archivePath, steps \o <<<<"unzip", archivePath, downloadDir>>>>)
       ELSE IF archiveType \in {<<".", "tgz">>, <<".", "tar", ".", "gz">>}
       THEN LocateBinary(h, os, downloadDir, ds, Decompress(h, downloadDir, fs, arch),
                         archivePath, steps \o <<<<"untar", archivePath, downloadDir>>>>)
       ELSE DlThrow(ds, fs, MsgUnknownFormat \o archivePath, FALSE, archivePath, steps)

\* downloadAndExtract without the test of line 231: it transfers every time
downloadAndExtract_AlwaysCurl(u, dir, os, h, ds, fs, served) ==
    IF Falsy(u) THEN DlReturn(ds, fs, NULL, <<>>, <<>>)
    ELSE
      LET downloadDir == Normalize(h, dir)
          archive == LastSegment(u)
          archivePath == Join(h, downloadDir, archive)
      IN IF ~Exist(ds, fs, downloadDir)
         THEN DlThrow(ds, fs, downloadDir \o MsgNotExist, FALSE, <<>>, <<>>)
         ELSE Extract(h, os, downloadDir, ds, Curl(fs, archivePath, u, served),
                      archive, archivePath, <<<<"curl", archivePath, u>>>>)

\* downloadAndExtract without the test of line 223: it creates a missing directory
downloadAndExtract_Mkdir(u, dir, os, h, ds, fs, served) ==
    IF Falsy(u) THEN DlReturn(ds, fs, NULL, <<>>, <<>>)
    ELSE
      LET downloadDir == Normalize(h, dir)
          archive == LastSegment(u)
          archivePath == Join(h, downloadDir, archive)
      IN IF ~Exist(ds, fs, archivePath)
         THEN Extract(h, os, downloadDir, ds \cup {downloadDir},
                      Curl(fs, archivePath, u, served),
                      archive, archivePath, <<<<"curl", archivePath, u>>>>)
         ELSE Extract(h, os, downloadDir, ds \cup {downloadDir}, fs, archive, archivePath, <<>>)

downloadAndExtract(u, dir, os, h, ds, fs, served) ==
    IF Falsy(u) THEN DlReturn(ds, fs, NULL, <<>>, <<>>)
    ELSE
      LET downloadDir == Normalize(h, dir)
          archive == LastSegment(u)
          archivePath == Join(h, downloadDir, archive)
      IN IF ~Exist(ds, fs, downloadDir)
         THEN DlThrow(ds, fs, downloadDir \o MsgNotExist, FALSE, <<>>, <<>>)
         ELSE IF ~Exist(ds, fs, archivePath)
         THEN Extract(h, os, downloadDir, ds, Curl(fs, archivePath, u, served),
                      archive, archivePath, <<<<"curl", archivePath, u>>>>)
         ELSE Extract(h, os, downloadDir, ds, fs, archive, archivePath, <<>>)

------------------------------------------------------------------------------
(* Local oc, URL test, HEAD probe *)

\* validUrl.isWebUri(s): an http or https URL with a host
IsWebUri(s) ==
    /\ ~Falsy(s)
    /\ Len(s) >= 4
    /\ s[1] \in {"http:", "https:"}
    /\ s[2] = "/" /\ s[3] = "/" /\ s[4] # "/"

\* the result of execOcSync: ok is FALSE when it returns undefined
ExecResult(ok, stdout, stderr) == [ok |-> ok, stdout |-> stdout, stderr |-> stderr]

\* s[a..b] is a non-empty run of digits
DigitRun(s, a, b) == a <= b /\ b <= Len(s) /\ \A k \in a..b : s[k] \in Digits

\* lines 359-364: the first match of v[0-9]+.[0-9]+.[0-9]+ in stdout; the dots of the
\* pattern are not escaped and match any character; each [0-9]+ is greedy
VersionMatch(stdout) ==
    LET n == Len(stdout)
        M == { m \in (1..n) \X (1..n) \X (1..n) \X (1..n) :
                 /\ stdout[m[1]] = "v"
                 /\ DigitRun(stdout, m[1] + 1, m[2])
                 /\ DigitRun(stdout, m[2] + 2, m[3])
                 /\ DigitRun(stdout, m[3] + 2, m[4]) }
        Before(x, y) ==
            \/ x[1] < y[1]
            \/ x[1] = y[1] /\ x[2] > y[2]
            \/ x[1] = y[1] /\ x[2] = y[2] /\ x[3] > y[3]
            \/ x[1] = y[1] /\ x[2] = y[2] /\ x[3] = y[3] /\ x[4] >= y[4]
    IN IF M = {} THEN UNDEFINED
       ELSE LET m == CHOOSE x \in M : \A y \in M : Before(x, y)
            IN SubSeq(stdout, m[1], m[4])

\* lines 340-366: r1 is the result of 'version --short=true --client=true', r2 of 'version'
getOcVersion(r1, r2) ==
    LET result == IF ~r1.ok \/ r1.stderr # <<>> THEN r2 ELSE r1
    IN IF ~result.ok \/ result.stdout = <<>> THEN UNDEFINED
       ELSE VersionMatch(result.stdout)

\* getLocalOcPath returning the oc it found whatever its version
getLocalOcPath_AnyVersion(ver, which, localVer) ==
    IF which = NULL THEN UNDEFINED ELSE which

\* lines 317-338: which is the result of tl.which, localVer that of getOcVersion
getLocalOcPath(ver, which, localVer) ==
    LET ocPath == IF which = NULL THEN UNDEFINED ELSE which
    IN IF ~Falsy(ver) /\ ~Falsy(ocPath)
          /\ (Falsy(localVer) \/ Lower(localVer) # Lower(ver))
       THEN UNDEFINED
       ELSE ocPath

------------------------------------------------------------------------------
(* Messages *)

MsgNoLatest == <<"Unable to determine latest oc download URL">>
MsgNoUrl == <<"Unable to determine oc download URL.">>
MsgNoBinary == <<"Unable to download or extract oc binary.">>
MsgNoOc == <<"no oc binary found">>
MsgPathEmpty == <<"path cannot be null or empty">>
MsgAbsoluteOnly == <<"Only absolute URLs are supported">>
MsgKubeConfig == <<"createKubeConfig failed">>
MsgSucceeded == <<"oc successfully installed and configured">>

Fulfilled(v) == [kind |-> "fulfilled", value |-> v, isError |-> FALSE]
\* Promise.reject(str) and throw str: the rejection value is a string
RejectedStr(v) == [kind |-> "rejected", value |-> v, isError |-> FALSE]
\* throw new Error(msg): the rejection value is an Error whose message is msg
RejectedErr(v) == [kind |-> "rejected", value |-> v, isError |-> TRUE]
Pending == [kind |-> "pending", value |-> UNDEFINED, isError |-> FALSE]

Ev(op, a, b) == <<op, a, b>>
Bool(b) == IF b THEN <<"true">> ELSE <<"false">>

------------------------------------------------------------------------------
(* Inputs of the task run *)

OsTypes == {OsLinux, OsDarwin, OsWindows, "fakeOS"}

GithubUrl ==
    <<"https:", "/", "/", "github.com", "/", "openshift", "/", "origin", "/", "releases",
      "/", "download", "/", "v3.11.0", "/",
      "openshift-origin-client-tools-v3.11.0-0cbc58b-mac", ".", "zip">>

RunVersions ==
    { <<>>,
      <<"4", ".", "1">>,
      <<"4", ".", "1", ".", "0">>,
      <<"v", "4", ".", "1", ".", "0">>,
      <<"V", "4", ".", "1", ".", "0">>,
      <<"4", ".", "0", ".", "0">>,
      <<"3", ".", "1", "1", ".", "0">>,
      <<"5", ".", "0", ".", "0">>,
      <<"4">>,
      GithubUrl }

LocalOc(h) ==
    IF h = HostWin32 THEN <<"C:", "\\", "tools", "\\", "oc", ".", "exe">>
    ELSE <<"/", "usr", "/", "bin", "/", "oc">>

\* what the two version commands of a local oc print
Stdouts ==
    { <<>>,
      <<"Client Version: ">>,
      <<"C", "l", "i", "e", "n", "t", " ", "v", "4", ".", "1", ".", "0", "-", "2", "0", "1", "9">>,
      <<"o", "c", " ", "v", "3", ".", "1", "1", ".", "0", "+", "0", "c", "b">> }

ExecResults ==
    { ExecResult(FALSE, <<>>, <<>>) }
      \cup { ExecResult(TRUE, so, se) : so \in Stdouts, se \in {<<>>, <<"error: unknown flag">>} }

\* what getOcVersion can return for these
LocalVersions == { getOcVersion(r1, r2) : r1 \in ExecResults, r2 \in ExecResults }

InitialPath == <<"/usr/bin">>

Init ==
    /\ version \in RunVersions
    /\ osType \in OsTypes
    /\ useLocalOc \in BOOLEAN
    /\ host = HostOf(osType)
    /\ whichOc \in {NULL, LocalOc(host)}
    /\ localOcVersion \in LocalVersions
    /\ latestArg = FALSE
    /\ pc = "start"
    /\ downloadVersion = UNDEFINED
    /\ url = UNDEFINED
    /\ ocPromise = Pending
    /\ outcome = Pending
    /\ dirs \in { {Normalize(host, WorkDir(host))},
                  {Normalize(host, WorkDir(host)), Normalize(host, DownloadDirOf(host))} }
    /\ files = {}
    /\ PATH = InitialPath
    /\ taskResults = <<>>
    /\ trace = <<>>
    /\ calls = <<>>

inputs == <<version, osType, useLocalOc, whichOc, localOcVersion, latestArg, host>>

------------------------------------------------------------------------------
(* installOc, lines 25-82, one action per awaited step *)

\* part_001 lines 9-12: read the inputs and call installOc
RunStart ==
    /\ pc = "start"
    /\ pc' = "local"
    /\ trace' = Append(trace, Ev("installOc", version, <<osType>>))
    /\ UNCHANGED <<inputs, downloadVersion, url, ocPromise, outcome, dirs, files, PATH, taskResults, calls>>

\* lines 30-35
InstallOcLocal ==
    /\ pc = "local"
    /\ LET localOcPath == getLocalOcPath(version, whichOc, localOcVersion)
       IN IF useLocalOc /\ ~Falsy(localOcPath)
          THEN /\ ocPromise' = Fulfilled(localOcPath)
               /\ pc' = "installed"
          ELSE /\ ocPromise' = ocPromise
               /\ pc' = "latest"
    /\ UNCHANGED <<inputs, downloadVersion, url, outcome, dirs, files, PATH, taskResults, trace, calls>>

\* lines 37-42
InstallOcLatest ==
    /\ pc = "latest"
    /\ IF Falsy(version)
       THEN /\ downloadVersion' = latestStable(osType)
            /\ trace' = Append(trace, Ev("latestStable", <<osType>>, latestStable(osType)))
            /\ IF latestStable(osType) = NULL
               THEN /\ ocPromise' = RejectedStr(MsgNoLatest)
                    /\ outcome' = RejectedStr(MsgNoLatest)
                    /\ pc' = "rejected"
               ELSE /\ UNCHANGED <<ocPromise, outcome>>
                    /\ pc' = "mkdir"
       ELSE /\ downloadVersion' = version
            /\ trace' = trace
            /\ UNCHANGED <<ocPromise, outcome>>
            /\ pc' = "mkdir"
    /\ UNCHANGED <<inputs, url, dirs, files, PATH, taskResults, calls>>

\* lines 44-51
InstallOcMkdir ==
    /\ pc = "mkdir"
    /\ LET downloadDir == Normalize(host, DownloadDirOf(host))
       IN IF ~Exist(dirs, files, downloadDir)
          THEN /\ dirs' = dirs \cup {downloadDir}
               /\ trace' = Append(trace, Ev("mkdir", downloadDir, <<>>))
          ELSE /\ dirs' = dirs
               /\ trace' = trace
    /\ pc' = "resolve"
    /\ UNCHANGED <<inputs, downloadVersion, url, ocPromise, outcome, files, PATH, taskResults, calls>>

\* InstallOcResolve without the isWebUri test of line 54
InstallOcResolve_NoUrlTest ==
    /\ pc = "resolve"
    /\ url' = ocBundleURL(downloadVersion, osType, FALSE)
    /\ trace' = Append(trace, Ev("ocBundleURL", Bool(FALSE),
                                 ocBundleURL(downloadVersion, osType, FALSE)))
    /\ pc' = "probe"
    /\ UNCHANGED <<inputs, downloadVersion, ocPromise, outcome, dirs, files, PATH, taskResults, calls>>

\* lines 53-57
InstallOcResolve ==
    /\ pc = "resolve"
    /\ IF IsWebUri(downloadVersion)
       THEN /\ url' = downloadVersion
            /\ trace' = trace
            /\ pc' = "checkurl"
       ELSE /\ url' = ocBundleURL(downloadVersion, osType, FALSE)
            /\ trace' = Append(trace, Ev("ocBundleURL", Bool(FALSE),
                                         ocBundleURL(downloadVersion, osType, FALSE)))
            /\ pc' = "probe"
    /\ UNCHANGED <<inputs, downloadVersion, ocPromise, outcome, dirs, files, PATH, taskResults, calls>>

\* lines 59-62: fetch(url, {method: 'HEAD'}) rejects for a url that is no absolute URL
InstallOcProbe ==
    /\ pc = "probe"
    /\ IF ~IsWebUri(url)
       THEN /\ ocPromise' = RejectedErr(MsgAbsoluteOnly)
            /\ outcome' = RejectedErr(MsgAbsoluteOnly)
            /\ trace' = Append(trace, Ev("HEAD", url, <<"threw">>))
            /\ pc' = "rejected"
       ELSE \E ok \in BOOLEAN :
            /\ UNCHANGED <<ocPromise, outcome>>
            /\ trace' = Append(trace, Ev("HEAD", url, IF ok THEN <<"ok">> ELSE <<"notok">>))
            /\ pc' = IF ok THEN "checkurl" ELSE "fallback"
    /\ UNCHANGED <<inputs, downloadVersion, url, dirs, files, PATH, taskResults, calls>>

\* lines 62-64
InstallOcFallback ==
    /\ pc = "fallback"
    /\ url' = ocBundleURL(downloadVersion, osType, TRUE)
    /\ trace' = Append(trace, Ev("ocBundleURL", Bool(TRUE),
                                 ocBundleURL(downloadVersion, osType, TRUE)))
    /\ pc' = "checkurl"
    /\ UNCHANGED <<inputs, downloadVersion, ocPromise, outcome, dirs, files, PATH, taskResults, calls>>

\* lines 67-69
InstallOcCheckUrl ==
    /\ pc = "checkurl"
    /\ IF url = NULL
       THEN /\ ocPromise' = RejectedStr(MsgNoUrl)
            /\ outcome' = RejectedStr(MsgNoUrl)
            /\ pc' = "rejected"
       ELSE /\ UNCHANGED <<ocPromise, outcome>>
            /\ pc' = "download"
    /\ UNCHANGED <<inputs, downloadVersion, url, dirs, files, PATH, taskResults, trace, calls>>

\* the record kept of one downloadAndExtract call
CallRecord(u, dir, os, existed, r) ==
    [url |-> u, dir |-> dir, os |-> os, existed |-> existed, kind |-> r.kind, value |-> r.value,
     isError |-> r.isError, archivePath |-> r.archivePath,
     curl |-> (\E i \in 1..Len(r.steps) : r.steps[i][1] = "curl"),
     steps |-> r.steps]

\* lines 71-81
InstallOcDownload ==
    /\ pc = "download"
    /\ \E served \in Contents :
         LET r == downloadAndExtract(url, DownloadDirOf(host), osType, host, dirs, files, served)
         IN /\ dirs' = r.dirs
            /\ files' = r.files
            /\ trace' = Append(trace, Ev("downloadAndExtract", url, DownloadDirOf(host))) \o r.steps
            /\ calls' = Append(calls, CallRecord(url, DownloadDirOf(host), osType,
                                              Exist(dirs, files, Normalize(host, DownloadDirOf(host))), r))
            /\ IF r.kind = "threw"
               THEN /\ ocPromise' = [kind |-> "rejected", value |-> r.value, isError |-> r.isError]
                    /\ outcome' = [kind |-> "rejected", value |-> r.value, isError |-> r.isError]
                    /\ pc' = "rejected"
               ELSE IF r.value = NULL
               THEN /\ ocPromise' = RejectedStr(MsgNoBinary)
                    /\ outcome' = RejectedStr(MsgNoBinary)
                    /\ pc' = "rejected"
               ELSE /\ ocPromise' = Fulfilled(r.value)
                    /\ outcome' = outcome
                    /\ pc' = "installed"
    /\ UNCHANGED <<inputs, downloadVersion, url, PATH, taskResults>>

------------------------------------------------------------------------------
(* PATH registration and the task entry point *)

\* addOcToPath testing only for null in line 298
addOcToPath_NullOnly(ocPath, os, oldPath) ==
    IF ocPath = NULL THEN NULL
    ELSE IF os = OsWindows
    THEN SubSeq(ocPath, 1, LastIndexOf(ocPath, "\\") - 1) \o <<";">> \o oldPath
    ELSE SubSeq(ocPath, 1, LastIndexOf(ocPath, "/") - 1) \o <<":">> \o oldPath

\* addOcToPath without the Windows_NT branch of lines 302-304
addOcToPath_PosixOnly(ocPath, os, oldPath) ==
    IF ocPath = NULL \/ ocPath = <<>> THEN NULL
    ELSE SubSeq(ocPath, 1, LastIndexOf(ocPath, "/") - 1) \o <<":">> \o oldPath

\* lines 297-309: the new value of PATH, or NULL when addOcToPath throws
addOcToPath(ocPath, os, oldPath) ==
    IF ocPath = NULL \/ ocPath = <<>> THEN NULL
    ELSE IF os = OsWindows
    THEN SubSeq(ocPath, 1, LastIndexOf(ocPath, "\\") - 1) \o <<";">> \o oldPath
    ELSE SubSeq(ocPath, 1, LastIndexOf(ocPath, "/") - 1) \o <<":">> \o oldPath

\* err.message in the catch handler of run(): a string has no message property
ErrMessage(o) == IF o.isError THEN o.value ELSE UNDEFINED

\* part_001 lines 13-16
RunAddOcToPath ==
    /\ pc = "installed"
    /\ LET ocPath == ocPromise.value
       IN IF ocPath = NULL
          THEN /\ outcome' = RejectedErr(MsgNoOc)
               /\ PATH' = PATH
               /\ trace' = trace
               /\ pc' = "rejected"
          ELSE IF addOcToPath(ocPath, osType, PATH) = NULL
          THEN /\ outcome' = RejectedErr(MsgPathEmpty)
               /\ PATH' = PATH
               /\ trace' = Append(trace, Ev("addOcToPath", ocPath, <<osType>>))
               /\ pc' = "rejected"
          ELSE /\ outcome' = outcome
               /\ PATH' = addOcToPath(ocPath, osType, PATH)
               /\ trace' = Append(trace, Ev("addOcToPath", ocPath, <<osType>>))
               /\ pc' = "kube"
    /\ UNCHANGED <<inputs, downloadVersion, url, ocPromise, dirs, files, taskResults, calls>>

\* part_001 line 17: auth.createKubeConfig completes or throws
RunCreateKubeConfig ==
    /\ pc = "kube"
    /\ trace' = Append(trace, Ev("createKubeConfig", ocPromise.value, <<osType>>))
    /\ \E ok \in BOOLEAN :
         IF ok THEN outcome' = outcome /\ pc' = "succeeded"
         ELSE outcome' = RejectedErr(MsgKubeConfig) /\ pc' = "rejected"
    /\ UNCHANGED <<inputs, downloadVersion, url, ocPromise, dirs, files, PATH, taskResults, calls>>

\* part_001 lines 21-26
RunThen ==
    /\ pc = "succeeded"
    /\ taskResults' = Append(taskResults, <<"Succeeded", MsgSucceeded>>)
    /\ pc' = "done"
    /\ UNCHANGED <<inputs, downloadVersion, url, ocPromise, outcome, dirs, files, PATH, trace, calls>>

\* RunCatch with an empty handler: no result is set
RunCatch_Swallow ==
    /\ pc = "rejected"
    /\ pc' = "done"
    /\ UNCHANGED <<inputs, downloadVersion, url, ocPromise, outcome, dirs, files, PATH,
                   taskResults, trace, calls>>

\* part_001 lines 27-29
RunCatch ==
    /\ pc = "rejected"
    /\ taskResults' = Append(taskResults, <<"Failed", ErrMessage(outcome)>>)
    /\ pc' = "done"
    /\ UNCHANGED <<inputs, downloadVersion, url, ocPromise, outcome, dirs, files, PATH, trace, calls>>

Next ==
    \/ RunStart
    \/ InstallOcLocal
    \/ InstallOcLatest
    \/ InstallOcMkdir
    \/ InstallOcResolve
    \/ InstallOcProbe
    \/ InstallOcFallback
    \/ InstallOcCheckUrl
    \/ InstallOcDownload
    \/ RunAddOcToPath
    \/ RunCreateKubeConfig
    \/ RunThen
    \/ RunCatch

Spec == Init /\ [][Next]_vars

------------------------------------------------------------------------------
(* The resolver as a function: ocBundleURL called directly *)

VersionAlphabet == {"v", ".", "0", "3", "4", "5"}

RECURSIVE StringsUpTo(_)
StringsUpTo(n) ==
    IF n = 0 THEN {<<>>}
    ELSE LET shorter == StringsUpTo(n - 1)
         IN shorter \cup {Append(s, c) : s \in shorter, c \in VersionAlphabet}

VersionStrings == StringsUpTo(MaxVerLen) \cup RunVersions \cup {NULL}

InitURL ==
    /\ version \in VersionStrings
    /\ osType \in OsTypes
    /\ latestArg \in BOOLEAN
    /\ useLocalOc = FALSE
    /\ host = HostPosix
    /\ whichOc = NULL
    /\ localOcVersion = UNDEFINED
    /\ pc = "call"
    /\ downloadVersion = UNDEFINED
    /\ url = UNDEFINED
    /\ ocPromise = Pending
    /\ outcome = Pending
    /\ dirs = {}
    /\ files = {}
    /\ PATH = InitialPath
    /\ taskResults = <<>>
    /\ trace = <<>>
    /\ calls = <<>>

CallOcBundleURL ==
    /\ pc = "call"
    /\ url' = ocBundleURL(version, osType, latestArg)
    /\ pc' = "returned"
    /\ UNCHANGED <<inputs, downloadVersion, ocPromise, outcome, dirs, files, PATH, taskResults, trace, calls>>

NextURL == CallOcBundleURL

SpecURL == InitURL /\ [][NextURL]_vars

------------------------------------------------------------------------------
(* The fetcher as an operation: downloadAndExtract called directly, several times *)

DlUrls ==
    { <<>>,
      V4Base \o <<"/", "4", ".", "1", ".", "0", "/">> \o getOcBundleByOS(OsLinux),
      V4Base \o <<"/", "4", ".", "3", ".", "0", "/">> \o getOcBundleByOS(OsLinux),
      V4Base \o <<"/", "4", ".", "1", ".", "0", "/">> \o getOcBundleByOS(OsWindows),
      <<"https:", "/", "/", "example.com", "/", "oc", ".", "tgz">>,
      <<"https:", "/", "/", "example.com", "/", "oc", ".", "rar">>,
      <<"https:", "/", "/", "example.com", "/", "oc", ".", "tar", ".", "zip">> }

\* the download directory written with a doubled separator, and one that does not exist
DlDirs(h) ==
    { WorkDir(h) \o <<"/", "/", ".download">>,
      WorkDir(h) \o <<"/", "missing">> }

DlOsTypes == {OsLinux, OsWindows}

\* what the server may answer: it is asked only by a call that transfers (line 231)
Served(u, dir, h, ds, fs) ==
    IF /\ ~Falsy(u)
       /\ Exist(ds, fs, Normalize(h, dir))
       /\ ~Exist(ds, fs, Join(h, Normalize(h, dir), LastSegment(u)))
    THEN Contents
    ELSE {CHOOSE c \in Contents : TRUE}

InitDL ==
    /\ host \in {HostPosix, HostWin32}
    /\ version = <<>>
    /\ osType = OsLinux
    /\ latestArg = FALSE
    /\ useLocalOc = FALSE
    /\ whichOc = NULL
    /\ localOcVersion = UNDEFINED
    /\ pc = "call"
    /\ downloadVersion = UNDEFINED
    /\ url = UNDEFINED
    /\ ocPromise = Pending
    /\ outcome = Pending
    /\ dirs = {Normalize(host, WorkDir(host)), Normalize(host, DownloadDirOf(host))}
    /\ files = {}
    /\ PATH = InitialPath
    /\ taskResults = <<>>
    /\ trace = <<>>
    /\ calls = <<>>

CallDownloadAndExtract ==
    /\ pc = "call"
    /\ Len(calls) < MaxCalls
    /\ \E u \in DlUrls, dir \in DlDirs(host), os \in DlOsTypes :
       \E served \in Served(u, dir, host, dirs, files) :
         \E r \in {downloadAndExtract(u, dir, os, host, dirs, files, served)} :
            /\ dirs' = r.dirs
            /\ files' = r.files
            /\ calls' = Append(calls, CallRecord(u, dir, os,
                                              Exist(dirs, files, Normalize(host, dir)), r))
    /\ UNCHANGED <<inputs, pc, downloadVersion, url, ocPromise, outcome, PATH, taskResults, trace>>

NextDL == CallDownloadAndExtract

SpecDL == InitDL /\ [][NextDL]_vars

------------------------------------------------------------------------------
(* PATH registration as an operation: addOcToPath called directly, several times *)

\* executable paths: none, empty, the paths of the tests, paths found by which, a bare name
OcPaths ==
    { NULL,
      <<>>,
      <<"D:", "\\", "a", "\\", "r1", "\\", "a", "\\", ".download", "\\", "oc", ".", "exe">>,
      <<"/", "a", "/", "r1", "/", "a", "/", ".download", "/", "oc">>,
      LocalOc(HostWin32),
      LocalOc(HostPosix),
      <<"oc">> }

InitPath ==
    /\ host \in {HostPosix, HostWin32}
    /\ version = <<>>
    /\ osType = OsLinux
    /\ latestArg = FALSE
    /\ useLocalOc = FALSE
    /\ whichOc = NULL
    /\ localOcVersion = UNDEFINED
    /\ pc = "path"
    /\ downloadVersion = UNDEFINED
    /\ url = UNDEFINED
    /\ ocPromise = Pending
    /\ outcome = Pending
    /\ dirs = {}
    /\ files = {}
    /\ PATH \in {InitialPath, <<>>}
    /\ taskResults = <<>>
    /\ trace = <<>>
    /\ calls = <<>>

\* lines 297-309: one call, with the PATH before and after it and the way it settled
CallAddOcToPath ==
    /\ pc = "path"
    /\ Len(calls) < MaxCalls
    /\ \E ocPath \in OcPaths, os \in OsTypes :
         LET newPath == addOcToPath(ocPath, os, PATH)
             threw == newPath = NULL
         IN /\ PATH' = IF threw THEN PATH ELSE newPath
            /\ calls' = Append(calls,
                   [ocPath |-> ocPath, os |-> os, before |-> PATH,
                    after |-> IF threw THEN PATH ELSE newPath,
                    settled |-> IF threw THEN RejectedErr(MsgPathEmpty) ELSE Fulfilled(UNDEFINED)])
    /\ UNCHANGED <<inputs, pc, downloadVersion, url, ocPromise, outcome, dirs, files,
                   taskResults, trace>>

NextPath == CallAddOcToPath

SpecPath == InitPath /\ [][NextPath]_vars

------------------------------------------------------------------------------
(* Reading the log of a run *)

EvIdx(op) == {i \in 1..Len(trace) : trace[i][1] = op}
BundleIdx == EvIdx("ocBundleURL")
HeadIdx == EvIdx("HEAD")
DlIdx == EvIdx("downloadAndExtract")

\* installOc has fulfilled or rejected
InstallSettled == ocPromise.kind # "pending"

\* the version input is resolved through ocBundleURL
ResolvesByVersion == ~Falsy(version) /\ ~IsWebUri(version)

SupportedOs == {"Linux", "Darwin", "Windows_NT"}

\* the bundle of each supported OS, written out
BundleOf(os) ==
    CASE os = "Linux"      -> <<"linux", "/", "oc", ".", "tar", ".", "gz">>
      [] os = "Darwin"     -> <<"macosx", "/", "oc", ".", "tar", ".", "gz">>
      [] os = "Windows_NT" -> <<"windows", "/", "oc", ".", "zip">>

------------------------------------------------------------------------------
(* C1 *)

\* C1: with a non-empty version that is no web URI, ocBundleURL is called first with
\* latest=false and its result is probed with one HEAD request; it is called a second
\* time, with latest=true, if and only if that probe fails; it is never called more
\* than twice; and when the probe succeeds the first URL is the one handed to
\* downloadAndExtract.
C1_SingleFallback ==
    ResolvesByVersion =>
      /\ Cardinality(BundleIdx) <= 2
      /\ Cardinality(HeadIdx) <= 1
      /\ \A b \in BundleIdx :
           trace[b][2] = Bool(\E a \in BundleIdx : a < b)
      /\ \A h \in HeadIdx :
           \E b \in BundleIdx : b < h /\ trace[b][2] = Bool(FALSE) /\ trace[h][2] = trace[b][3]
      /\ (Cardinality(BundleIdx) = 2 => \E h \in HeadIdx : trace[h][3] # <<"ok">>)
      /\ (InstallSettled /\ (\E h \in HeadIdx : trace[h][3] # <<"ok">>)
            => Cardinality(BundleIdx) = 2)
      /\ \A h \in HeadIdx, d \in DlIdx :
           trace[h][3] = <<"ok">> => trace[d][2] = trace[h][2]

------------------------------------------------------------------------------
(* C2 *)

\* C2: for version "4.1" on Windows_NT the first resolution is <v4base>/4.1/windows/oc.zip
\* and the fallback resolution (latest=true) is the non-null URL whose version segment
\* is the latest patch the table records for line 4.1.
C2_FallbackFor41 ==
    (version = <<"4", ".", "1">> /\ osType = "Windows_NT") =>
      \A b \in BundleIdx :
        IF trace[b][2] = Bool(FALSE)
        THEN trace[b][3] = V4Base \o <<"/", "4", ".", "1", "/">> \o BundleOf(osType)
        ELSE /\ trace[b][3] # NULL
             /\ trace[b][3] = V4Base \o <<"/">> \o OcUtilsPatch(<<"4", ".", "1">>)
                                      \o <<"/">> \o BundleOf(osType)

------------------------------------------------------------------------------
(* C3 *)

\* C3: for a non-empty, non-URL version, whenever a resolution (the first or the
\* fallback) yields null, installOc rejects with 'Unable to determine oc download URL.'
\* and downloadAndExtract is never invoked.
C3_NullUrlRejects ==
    (ResolvesByVersion /\ InstallSettled /\ (\E b \in BundleIdx : trace[b][3] = NULL)) =>
      /\ ocPromise = RejectedStr(MsgNoUrl)
      /\ DlIdx = {}

------------------------------------------------------------------------------
(* C4 *)

\* C4: a version input that is a well-formed web URL is used verbatim: ocBundleURL is
\* never called, no HEAD probe is issued, and the URL passed to downloadAndExtract is
\* the input itself.
C4_UrlVerbatim ==
    IsWebUri(version) =>
      /\ BundleIdx = {}
      /\ HeadIdx = {}
      /\ \A d \in DlIdx : trace[d][2] = version
      /\ \A i \in 1..Len(calls) : calls[i].url = version
      /\ (InstallSettled => DlIdx # {})

\* a run with the GitHub URL on Darwin has called downloadAndExtract
C4_Witness ==
    /\ version = GithubUrl
    /\ osType = "Darwin"
    /\ InstallSettled
    /\ DlIdx # {}

------------------------------------------------------------------------------
(* C5 *)

\* the statement of C5 about a settled installOc with an empty version
C5_Body ==
    /\ Cardinality(EvIdx("latestStable")) = 1
    /\ BundleIdx = {}
    /\ HeadIdx = {}
    /\ IF osType \in SupportedOs
       THEN /\ DlIdx # {}
            /\ \A d \in DlIdx :
                 trace[d][2] = V4Base \o <<"/", "latest", "/">> \o BundleOf(osType)
       ELSE /\ \A l \in EvIdx("latestStable") : trace[l][3] = NULL
            /\ ocPromise = RejectedStr(MsgNoLatest)
            /\ EvIdx("mkdir") = {}
            /\ EvIdx("curl") = {}
            /\ DlIdx = {}
            /\ files = {}

\* C5 as stated: installOc with an empty version calls latestStable exactly once,
\* downloads V4Base/latest/bundle(os) for a supported OS without ocBundleURL or HEAD,
\* and for any other OS rejects with 'Unable to determine latest oc download URL'
\* before the download directory is created or anything is transferred.
C5_Original == (Falsy(version) /\ InstallSettled) => C5_Body

\* installOc returned the oc found on the search path (lines 30-35)
LocalOcReturned == useLocalOc /\ ~Falsy(getLocalOcPath(version, whichOc, localOcVersion))

\* C5 amended: the same, for a call of installOc with an empty version that does not
\* return an oc found on the search path (useLocalOc unset, or no oc found).
C5_LatestOnce == (Falsy(version) /\ InstallSettled /\ ~LocalOcReturned) => C5_Body

\* an empty version on a supported OS, no local oc returned, the latest bundle downloaded
C5_Witness ==
    /\ Falsy(version)
    /\ ~LocalOcReturned
    /\ InstallSettled
    /\ osType \in SupportedOs
    /\ DlIdx # {}

------------------------------------------------------------------------------
(* C6 *)

FixedMessages == {MsgNoLatest, MsgNoUrl, MsgNoBinary}

\* C6: whenever installOc rejects with one of the three fixed messages, the message
\* the task entry point gives to task.setResult(Failed, ...) is that same string.
C6_FailureMessageSurfaced ==
    (pc = "done" /\ ocPromise.kind = "rejected" /\ ocPromise.value \in FixedMessages) =>
      taskResults = << <<"Failed", ocPromise.value>> >>

------------------------------------------------------------------------------
(* C7 *)

InstallOps == {"installOc", "latestStable", "mkdir", "ocBundleURL", "HEAD",
               "downloadAndExtract", "curl", "unzip", "untar", "chmod"}

\* C7: the steps run in the order installOc, addOcToPath, createKubeConfig: addOcToPath
\* only after installOc fulfilled with a path, createKubeConfig only after addOcToPath
\* completed; and when installOc rejects PATH is unchanged and exactly one task
\* result, Failed, is set.
C7_TotalOrder ==
    /\ Cardinality(EvIdx("addOcToPath")) <= 1
    /\ Cardinality(EvIdx("createKubeConfig")) <= 1
    /\ \A a \in EvIdx("addOcToPath") :
         /\ ocPromise.kind = "fulfilled"
         /\ ~Falsy(ocPromise.value)
         /\ trace[a][2] = ocPromise.value
         /\ \A i \in 1..Len(trace) : (i < a) <=> (trace[i][1] \in InstallOps)
    /\ \A k \in EvIdx("createKubeConfig") :
         /\ \E a \in EvIdx("addOcToPath") : a < k
         /\ PATH # InitialPath
    /\ PATH # InitialPath => EvIdx("addOcToPath") # {}
    /\ ocPromise.kind = "rejected" =>
         /\ PATH = InitialPath
         /\ EvIdx("addOcToPath") = {}
         /\ EvIdx("createKubeConfig") = {}
         /\ Len(taskResults) <= 1
         /\ (pc = "done" => Len(taskResults) = 1 /\ taskResults[1][1] = "Failed")
    /\ ocPromise.kind = "pending" => taskResults = <<>>

\* a run in which installOc rejected has ended with its one Failed result
C7_Witness ==
    /\ pc = "done"
    /\ ocPromise.kind = "rejected"
    /\ Len(taskResults) = 1
    /\ taskResults[1][1] = "Failed"

------------------------------------------------------------------------------
(* C8 *)

\* two successive calls with the same URL and the same download directory, which exists
SameUrlAndDir(a, b) == a.url = b.url /\ a.dir = b.dir /\ a.existed

\* the second call skipped the transfer, used the same archive path and ended as the first
SecondReusesFirst(a, b) ==
    /\ ~b.curl
    /\ ~(a.curl /\ b.curl)
    /\ b.archivePath = a.archivePath
    /\ b.kind = a.kind
    /\ b.value = a.value
    /\ b.isError = a.isError

------------------------------------------------------------------------------
(* C9 *)

\* the maximal digit runs of s that are immediately followed by '.'
DottedRuns(s) ==
    { r \in (1..Len(s)) \X (1..Len(s)) :
        /\ r[1] <= r[2]
        /\ \A k \in r[1]..r[2] : s[k] \in Digits
        /\ (r[1] = 1 \/ s[r[1] - 1] \notin Digits)
        /\ r[2] < Len(s)
        /\ s[r[2] + 1] = "." }

\* the number written by the first of them
LeadingMajor(s) ==
    LET r == CHOOSE x \in DottedRuns(s) : \A y \in DottedRuns(s) : x[1] <= y[1]
    IN ToNumber(SubSeq(s, r[1], r[2]))

\* what C9 says ocBundleURL(ver, os) returns when latest is not requested
C9_Expected(ver, os) ==
    LET stripped == IF ver # <<>> /\ Head(ver) = "v" THEN Tail(ver) ELSE ver
    IN IF ver = NULL \/ ver = <<>> THEN NULL
       ELSE IF DottedRuns(stripped) = {} THEN NULL
       ELSE IF LeadingMajor(stripped) \notin {3, 4} THEN NULL
       ELSE IF os \notin SupportedOs THEN NULL
       ELSE (IF LeadingMajor(stripped) = 3 THEN V3Base ELSE V4Base)
              \o <<"/">> \o stripped \o <<"/">> \o BundleOf(os)

\* C9: without latest, ocBundleURL returns null for an empty or null version, for a
\* version that after stripping one leading 'v' has no digit run followed by '.', for a
\* major other than 3 and 4, and for an unsupported OS; otherwise it returns
\* MirrorBase(major)/strippedVersion/bundle(os); so "v4.1.0" and "4.1.0" give the same URL.
C9_ResolveVersionURL ==
    (pc = "returned" /\ ~latestArg) =>
      /\ url = C9_Expected(version, osType)
      /\ (version = <<"v", "4", ".", "1", ".", "0">>
            => url = ocBundleURL(<<"4", ".", "1", ".", "0">>, osType, FALSE))

\* "v4.1.0" resolved for a supported OS
C9_Witness ==
    /\ pc = "returned"
    /\ ~latestArg
    /\ version = <<"v", "4", ".", "1", ".", "0">>
    /\ osType \in SupportedOs
    /\ url # NULL

------------------------------------------------------------------------------
(* C10 *)

\* C10: downloadAndExtract with a non-empty URL and a download directory that does
\* not exist throws an error naming that directory before any transfer, extraction
\* or chmod, and never creates the directory.
C10_MissingDirThrows ==
    \A i \in 1..Len(calls) :
      (~Falsy(calls[i].url) /\ ~calls[i].existed) =>
        /\ calls[i].kind = "threw"
        /\ calls[i].value = Normalize(host, calls[i].dir) \o <<" does not exist.">>
        /\ calls[i].steps = <<>>
        /\ Normalize(host, calls[i].dir) \notin dirs
        /\ calls[i].dir \notin dirs

\* a call against the missing directory has thrown
C10_Witness ==
    \E i \in 1..Len(calls) :
      /\ ~Falsy(calls[i].url)
      /\ ~calls[i].existed
      /\ calls[i].kind = "threw"

------------------------------------------------------------------------------
(* C11 *)

\* s ends with suf
EndsWith(s, suf) ==
    /\ Len(s) >= Len(suf)
    /\ SubSeq(s, Len(s) - Len(suf) + 1, Len(s)) = suf

\* the call c ran the step op
HasStep(c, op) == \E j \in 1..Len(c.steps) : c.steps[j][1] = op

\* the call c ran the step op on its archive and into its normalised directory
HasStepInto(c, op) ==
    \E j \in 1..Len(c.steps) :
      c.steps[j] = <<op, c.archivePath, Normalize(host, c.dir)>>

\* the calls that get as far as choosing an extractor
ReachesExtract(c) == ~Falsy(c.url) /\ c.existed

\* C11: downloadAndExtract chooses the extractor from the archive file name alone: a
\* name ending in .zip is unzipped into the download directory, a name ending in .tgz
\* or .tar.gz is untarred into the download directory and its zero-length entries are
\* not written, and every other name throws 'unknown archive format <archivePath>'
\* without extracting anything.
C11_ExtractorByName ==
    \A i \in 1..Len(calls) :
      LET c == calls[i]
          name == LastSegment(c.url)
      IN ReachesExtract(c) =>
           IF EndsWith(name, <<".", "zip">>)
           THEN HasStepInto(c, "unzip") /\ ~HasStep(c, "untar")
           ELSE IF EndsWith(name, <<".", "tgz">>) \/ EndsWith(name, <<".", "tar", ".", "gz">>)
           THEN /\ HasStepInto(c, "untar")
                /\ ~HasStep(c, "unzip")
                /\ (i = Len(calls) /\ c.archivePath \in FilePaths(files)) =>
                     LET arch == FileAt(files, c.archivePath)
                     IN \A e \in arch.entries :
                          (e.len = 0 /\ ~\E e2 \in arch.entries : e2.name = e.name /\ e2.len > 0)
                            => ~\E f \in files :
                                  /\ f.path = Join(host, Normalize(host, c.dir), e.name)
                                  /\ f.src = arch.src
           ELSE /\ c.kind = "threw"
                /\ c.value = MsgUnknownFormat \o c.archivePath
                /\ ~HasStep(c, "unzip")
                /\ ~HasStep(c, "untar")

------------------------------------------------------------------------------
(* C12 *)

\* the directory the call c extracted its archive into
ExtractedInto(c) ==
    LET j == CHOOSE k \in 1..Len(c.steps) : c.steps[k][1] \in {"unzip", "untar"}
    IN c.steps[j][3]

\* the call c extracted its archive and came back
ExtractedAndReturned(c) ==
    /\ c.kind = "returned"
    /\ HasStep(c, "unzip") \/ HasStep(c, "untar")

\* where C12 says the executable is looked up after the extraction of the call c
C12_Expected(c) ==
    Join(host, ExtractedInto(c), IF c.os = "Windows_NT" THEN <<"oc", ".", "exe">> ELSE <<"oc">>)

C12_WitnessAbsent ==
    \E i \in 1..Len(calls) :
      /\ ExtractedAndReturned(calls[i])
      /\ C12_Expected(calls[i]) \notin FilePaths(files)
      /\ ocPromise = RejectedStr(MsgNoBinary)

------------------------------------------------------------------------------
(* C13 *)

\* C13: addOcToPath called with a null or an empty executable path, for any osType,
\* fails with an Error whose message is exactly 'path cannot be null or empty' and
\* leaves PATH as it was.
C13_NullOrEmptyThrows ==
    \A i \in 1..Len(calls) :
      calls[i].ocPath \in {NULL, <<>>} =>
        /\ calls[i].settled = [kind |-> "rejected", value |-> <<"path cannot be null or empty">>,
                               isError |-> TRUE]
        /\ calls[i].after = calls[i].before
        /\ (i = Len(calls) => PATH = calls[i].before)

\* a call with an empty path on Windows_NT, after a call that changed PATH
C13_Witness ==
    /\ Len(calls) = 2
    /\ calls[1].after # calls[1].before
    /\ calls[2].ocPath = <<>>
    /\ calls[2].os = "Windows_NT"
    /\ calls[2].settled.kind = "rejected"

------------------------------------------------------------------------------
(* C14 *)

\* the path separator and the list separator C14 names for an osType
C14_PathSep(os) == IF os = "Windows_NT" THEN "\\" ELSE "/"
C14_ListSep(os) == IF os = "Windows_NT" THEN ";" ELSE ":"

\* i is the position of the last c in s
IsLastAt(s, c, i) ==
    /\ i \in 1..Len(s)
    /\ s[i] = c
    /\ \A j \in (i + 1)..Len(s) : s[j] # c

\* C14: addOcToPath called with a non-empty executable path sets PATH to
\* dir + listSeparator + oldPATH, where dir is the path up to, not including, its last
\* '\' for Windows_NT and its last '/' otherwise, and listSeparator is ';' for
\* Windows_NT and ':' otherwise; the previous PATH follows the separator unchanged.
C14_PrependsDir ==
    \A i \in 1..Len(calls) :
      LET c == calls[i]
      IN c.ocPath \notin {NULL, <<>>} =>
           /\ c.settled.kind = "fulfilled"
           /\ EndsWith(c.after, <<C14_ListSep(c.os)>> \o c.before)
           /\ \A k \in 1..Len(c.ocPath) :
                IsLastAt(c.ocPath, C14_PathSep(c.os), k) =>
                  c.after = SubSeq(c.ocPath, 1, k - 1) \o <<C14_ListSep(c.os)>> \o c.before
           /\ (i = Len(calls) => PATH = c.after)

\* the Windows path of the tests registered for Windows_NT, the POSIX one for Linux
C14_Witness ==
    /\ Len(calls) = 2
    /\ calls[1].os = "Windows_NT"
    /\ calls[1].after = <<"D:", "\\", "a", "\\", "r1", "\\", "a", "\\", ".download", ";">>
                           \o calls[1].before
    /\ calls[2].os = "Linux"
    /\ PATH = <<"/", "a", "/", "r1", "/", "a", "/", ".download", ":">> \o calls[1].after

------------------------------------------------------------------------------
(* C15 *)

\* useLocalOc is set and an oc executable is on the search path
LocalOcFound == useLocalOc /\ whichOc # NULL

\* installOc returned the local path and did nothing else
ReturnedLocalOnly ==
    /\ ocPromise = Fulfilled(whichOc)
    /\ \A i \in 1..Len(trace) : trace[i][1] \notin (InstallOps \ {"installOc"})
    /\ calls = <<>>
    /\ files = {}

\* installOc went on to the normal resolution and download
ProceededNormally ==
    /\ ocPromise # Fulfilled(whichOc)
    /\ \E i \in 1..Len(trace) : trace[i][1] \in {"latestStable", "ocBundleURL", "downloadAndExtract"}

\* C15: when useLocalOc is set and an oc is found on the search path, installOc
\* returns that path without URL resolution, HEAD probe, directory creation or
\* download, provided no version was requested or the version string the local
\* executable reports equals the requested version string; in every other case it
\* proceeds with the normal resolution and download.
C15_Original ==
    InstallSettled =>
      IF LocalOcFound /\ (Falsy(version) \/ localOcVersion = version)
      THEN ReturnedLocalOnly
      ELSE ProceededNormally

\* C15 amended: the same, the reported and the requested version strings being compared
\* after both are put in lower case.
C15_LocalShortcut ==
    InstallSettled =>
      IF LocalOcFound /\ (Falsy(version)
                            \/ (localOcVersion # UNDEFINED /\ Lower(localOcVersion) = Lower(version)))
      THEN ReturnedLocalOnly
      ELSE ProceededNormally

\* the local oc reports the requested version and is returned
C15_Witness ==
    /\ InstallSettled
    /\ LocalOcFound
    /\ version = <<"v", "4", ".", "1", ".", "0">>
    /\ localOcVersion = version
    /\ ocPromise = Fulfilled(whichOc)

\* the local oc reports another version and the bundle is downloaded
C15_WitnessOther ==
    /\ InstallSettled
    /\ LocalOcFound
    /\ version = <<"4", ".", "1", ".", "0">>
    /\ localOcVersion = <<"v", "3", ".", "1", "1", ".", "0">>
    /\ DlIdx # {}

------------------------------------------------------------------------------
(* C16 *)

\* C16: after any sequence of downloadAndExtract calls on one download directory, the
\* archive the last call extracted, and the executable it returned, hold the content
\* fetched from the URL passed to that call, also when an earlier call used another
\* URL with the same final path segment.
C16_ContentFromCallUrl ==
    Len(calls) > 0 =>
      LET c == calls[Len(calls)]
      IN ReachesExtract(c) =>
           /\ (HasStep(c, "unzip") \/ HasStep(c, "untar"))
                => FileAt(files, c.archivePath).src = c.url
           /\ (c.kind = "returned" /\ c.value # NULL)
                => FileAt(files, c.value).src = c.url

====
